---------------------------- MODULE Spec2Model ----------------------------
(***************************************************************************)
(* ARM dispatch-table tooling of the gba repository:                       *)
(*   src/src/inst_table.py         classify, the 512-entry build loop,     *)
(*                                 generate_cpp_table / emit_repeat_macro, *)
(*                                 generate_cpp_fn_name_table              *)
(*   src/src/cross_check_tables.py mgba_to_yours and the loop of main      *)
(* Python indices are 0-based; At(arr, k) reads arr[k] of the Python list. *)
(***************************************************************************)
EXTENDS Integers, Sequences, FiniteSets, TLC

VARIABLES
    pc,             \* position of the running script
    lookup,         \* the dict consulted by line 302 (type_to_handler)
    step,           \* iterations of the build loop completed so far
    idx,            \* build loop: outer loop variable
    mul_swp_bit,    \* build loop: inner loop variable
    new_idx,        \* build loop: key written by the last iteration
    mnemonic,       \* build loop: category returned by the last classify
    handler_array,  \* the table (global of inst_table.py / emitter argument)
    writes,         \* history: number of assignments to each table slot
    i,              \* generate_cpp_table: scan index
    handler,        \* generate_cpp_table: handler of the current uniform run
    start,          \* generate_cpp_table: start of the next block
    count,          \* generate_cpp_table: entries of the run still to emit
    output,         \* generate_cpp_table: emitted lines
    fn_names,       \* generate_cpp_fn_name_table: emitted name lines
    mgba_table,     \* main: parsed reference table  {key: foreign name}
    your_table,     \* main: parsed local table      {key: handler name}
    todo,           \* main: keys of sorted(all_keys) not yet visited
    key,            \* main: loop variable
    mgba_handler,   \* main: reference name of the current key
    your_handler,   \* main: local name of the current key
    mapped_handler, \* main: canonical name of the current key
    visits,         \* history: number of visits of each key
    printed,        \* main: the "Mismatch at key" lines printed
    mismatches,     \* main: the counter
    total,          \* main: the number printed by "Total mismatches"
    inc_lines,      \* parse_your_table: the lines of the file at path
    line_no         \* parse_your_table: lines consumed by enumerate(f)

vars == << pc, lookup, step, idx, mul_swp_bit, new_idx, mnemonic,
           handler_array, writes, i, handler, start, count, output, fn_names,
           mgba_table, your_table, todo, key, mgba_handler, your_handler,
           mapped_handler, visits, printed, mismatches, total,
           inc_lines, line_no >>

buildVars == << lookup, step, idx, mul_swp_bit, new_idx, mnemonic, writes >>
emitVars  == << i, handler, start, count, output, fn_names >>
checkVars == << mgba_table, your_table, todo, key, mgba_handler,
                your_handler, mapped_handler, visits, printed, mismatches,
                total >>
parseVars == << inc_lines, line_no >>

---------------------------------------------------------------------------
(* Bounds of the model.                                                    *)

\* Longest table of the exhaustive family of emitter inputs.
MaxLen == 6
\* Longest uniform run of the long-run family of emitter inputs.
MaxRun == 512
\* Number of categories (a prefix of RemovableOrder) that may be missing
\* from the lookup.
MaxRemovable == 4
\* Keys 0 .. MaxKey-1 of the validator's input tables.
MaxKey == 3
\* Most lines of a file given to parse_your_table.
MaxLines == 4

---------------------------------------------------------------------------
(* Python values and helpers.                                              *)

\* Python's None (printed as "None" by an f-string).
None == "None"

\* Result of a rule of classify whose body executed no return statement.
FallThrough == "<fall through>"

\* d.get(k, default)
DictGet(d, k, default) == IF k \in DOMAIN d THEN d[k] ELSE default

\* arr[k] for a Python list held as a sequence
At(arr, k) == arr[k + 1]

\* (x >> n) & 1
Bit(x, n) == (x \div (2 ^ n)) % 2

RECURSIVE BitOr(_, _)
\* a | b on non-negative integers
BitOr(a, b) ==
    IF a = 0 THEN b
    ELSE IF b = 0 THEN a
    ELSE (IF a % 2 = 1 \/ b % 2 = 1 THEN 1 ELSE 0)
         + 2 * BitOr(a \div 2, b \div 2)

\* x << n
ShiftLeft(x, n) == x * (2 ^ n)

---------------------------------------------------------------------------
(* classify, src/src/inst_table.py lines 8-182.                            *)

\* The bit fields extracted at lines 10-17.
Bits(bits_27_20) ==
    [ b27 |-> Bit(bits_27_20, 7), b26 |-> Bit(bits_27_20, 6),
      b25 |-> Bit(bits_27_20, 5), b24 |-> Bit(bits_27_20, 4),
      b23 |-> Bit(bits_27_20, 3), b22 |-> Bit(bits_27_20, 2),
      b21 |-> Bit(bits_27_20, 1), b20 |-> Bit(bits_27_20, 0) ]

\* Lines 22-26.
RuleMRS(b, m) ==
    IF b.b27 = 0 /\ b.b26 = 0 /\ b.b25 = 0 /\ b.b24 = 1 /\ b.b23 = 0
       /\ b.b20 = 0 /\ m = 0
    THEN IF b.b21 = 0 THEN "MRS" ELSE "MSR_REG"
    ELSE FallThrough

\* An MSR (immediate) rule that does not test the discriminator.
RuleMSRImmAnyDiscriminator(b, m) ==
    IF b.b27 = 0 /\ b.b26 = 0 /\ b.b25 = 1 /\ b.b24 = 1 /\ b.b23 = 0
       /\ b.b20 = 0
    THEN "MSR_IMM"
    ELSE FallThrough

\* Lines 28-29.
RuleMSRImm(b, m) ==
    IF b.b27 = 0 /\ b.b26 = 0 /\ b.b25 = 1 /\ b.b24 = 1 /\ b.b23 = 0
       /\ b.b20 = 0 /\ m = 0
    THEN "MSR_IMM"
    ELSE FallThrough

\* The flag test of the multiply rule inverted.
RuleMulFlagsSwapped(b, m) ==
    IF b.b27 = 0 /\ b.b26 = 0 /\ b.b25 = 0 /\ b.b24 = 0 /\ b.b23 = 0
       /\ b.b22 = 0 /\ m = 1
    THEN IF b.b21 = 0 THEN (IF b.b20 = 0 THEN "MULS" ELSE "MUL")
         ELSE (IF b.b20 = 0 THEN "MLAS" ELSE "MLA")
    ELSE FallThrough

\* A multiply rule that does not look at the accumulate bit.
RuleMulIgnoresAccumulate(b, m) ==
    IF b.b27 = 0 /\ b.b26 = 0 /\ b.b25 = 0 /\ b.b24 = 0 /\ b.b23 = 0
       /\ b.b22 = 0 /\ m = 1
    THEN (IF b.b20 = 1 THEN "MULS" ELSE "MUL")
    ELSE FallThrough

\* Lines 32-36.
RuleMul(b, m) ==
    IF b.b27 = 0 /\ b.b26 = 0 /\ b.b25 = 0 /\ b.b24 = 0 /\ b.b23 = 0
       /\ b.b22 = 0 /\ m = 1
    THEN IF b.b21 = 0 THEN (IF b.b20 = 1 THEN "MULS" ELSE "MUL")
         ELSE IF b.b21 = 1 THEN (IF b.b20 = 1 THEN "MLAS" ELSE "MLA")
         ELSE FallThrough
    ELSE FallThrough

\* Lines 39-47.
RuleMulLong(b, m) ==
    IF b.b27 = 0 /\ b.b26 = 0 /\ b.b25 = 0 /\ b.b24 = 0 /\ b.b23 = 1
       /\ m = 1
    THEN IF b.b22 = 0 /\ b.b21 = 0
              THEN (IF b.b20 = 1 THEN "UMULLS" ELSE "UMULL")
         ELSE IF b.b22 = 0 /\ b.b21 = 1
              THEN (IF b.b20 = 1 THEN "UMLALS" ELSE "UMLAL")
         ELSE IF b.b22 = 1 /\ b.b21 = 0
              THEN (IF b.b20 = 1 THEN "SMULLS" ELSE "SMULL")
         ELSE IF b.b22 = 1 /\ b.b21 = 1
              THEN (IF b.b20 = 1 THEN "SMLALS" ELSE "SMLAL")
         ELSE FallThrough
    ELSE FallThrough

\* A swap rule that does not test bits 27 and 26.
RuleSwapAnyPrefix(b, m) ==
    IF b.b25 = 0 /\ b.b24 = 1 /\ b.b23 = 0 /\ m = 1
    THEN IF b.b22 = 0 THEN "SWP" ELSE "SWPB"
    ELSE FallThrough

\* Lines 50-54.
RuleSwap(b, m) ==
    IF b.b27 = 0 /\ b.b26 = 0 /\ b.b25 = 0 /\ b.b24 = 1 /\ b.b23 = 0
       /\ m = 1
    THEN IF b.b22 = 0 THEN "SWP"
         ELSE IF b.b22 = 1 THEN "SWPB"
         ELSE FallThrough
    ELSE FallThrough

\* A name table that lacks its last entry.
data_proc_map_without_mvn ==
    [ op \in 0 .. 14 |->
        << "AND", "EOR", "SUB", "RSB", "ADD", "ADC", "SBC", "RSC",
           "TST", "TEQ", "CMP", "CMN", "ORR", "MOV", "BIC" >>[op + 1] ]

\* Lines 60-77: the 16-entry name table.
data_proc_map ==
    [ op \in 0 .. 15 |->
        << "AND", "EOR", "SUB", "RSB", "ADD", "ADC", "SBC", "RSC",
           "TST", "TEQ", "CMP", "CMN", "ORR", "MOV", "BIC", "MVN" >>[op + 1] ]

\* Lines 57-81; opcode is (bits_27_20 >> 1) & 0xF, bits 24..21.
RuleDataProc(b, m) ==
    IF b.b27 = 0 /\ b.b26 = 0 /\ m = 0
    THEN LET opcode == 8 * b.b24 + 4 * b.b23 + 2 * b.b22 + b.b21
             suffix == IF b.b25 = 1 THEN "_IMM" ELSE "_REG"
         IN  IF opcode \in {8, 9, 10, 11}
             THEN data_proc_map[opcode] \o suffix
             ELSE DictGet(data_proc_map, opcode, "Other DP") \o suffix
    ELSE FallThrough

\* A family in which post-indexed writeback is optional, selected by
\* bit 21 as for pre-indexed transfers.
SdtVariantPostOptional(name, b) ==
    IF b.b24 = 0
    THEN (IF b.b21 = 1 THEN name \o "_POST_WB" ELSE name \o "_POST_NOWB")
    ELSE IF b.b21 = 1 THEN name \o "_PRE_WB" ELSE name \o "_PRE_NOWB"

\* Lines 89-91 and their seven repetitions: one load/store family.
SdtVariant(name, b) ==
    IF b.b24 = 0 THEN name \o "_POST_WB"
    ELSE IF b.b21 = 1 THEN name \o "_PRE_WB" ELSE name \o "_PRE_NOWB"

\* Lines 84-128.
RuleSDT(b, m) ==
    IF b.b27 = 0 /\ b.b26 = 1 /\ m = 0
    THEN IF b.b20 = 0 /\ b.b22 = 0 /\ b.b25 = 0 THEN SdtVariant("STR_IMM", b)
         ELSE IF b.b20 = 0 /\ b.b22 = 0 /\ b.b25 = 1
              THEN SdtVariant("STR_REG", b)
         ELSE IF b.b20 = 0 /\ b.b22 = 1 /\ b.b25 = 0
              THEN SdtVariant("STRB_IMM", b)
         ELSE IF b.b20 = 0 /\ b.b22 = 1 /\ b.b25 = 1
              THEN SdtVariant("STRB_REG", b)
         ELSE IF b.b20 = 1 /\ b.b22 = 0 /\ b.b25 = 0
              THEN SdtVariant("LDR_IMM", b)
         ELSE IF b.b20 = 1 /\ b.b22 = 0 /\ b.b25 = 1
              THEN SdtVariant("LDR_REG", b)
         ELSE IF b.b20 = 1 /\ b.b22 = 1 /\ b.b25 = 0
              THEN SdtVariant("LDRB_IMM", b)
         ELSE IF b.b20 = 1 /\ b.b22 = 1 /\ b.b25 = 1
              THEN SdtVariant("LDRB_REG", b)
         ELSE "Other SDT"
    ELSE FallThrough

\* Lines 131-135 (repeated verbatim at lines 138-142).
RuleBranch(b) ==
    IF b.b27 = 1 /\ b.b26 = 0 /\ b.b25 = 1
    THEN IF b.b24 = 0 THEN "B"
         ELSE IF b.b24 = 1 THEN "BL"
         ELSE FallThrough
    ELSE FallThrough

\* Lines 145-149.
RuleBlock(b) ==
    IF b.b27 = 1 /\ b.b26 = 0 /\ b.b25 = 0
    THEN IF b.b20 = 1 THEN "LDM" ELSE "STM"
    ELSE FallThrough

\* Lines 152-153.
RuleSWI(b) ==
    IF b.b27 = 1 /\ b.b26 = 1 /\ b.b25 = 1 /\ b.b24 = 1
    THEN "SWI"
    ELSE FallThrough

\* A coprocessor rule without the alternate encodings: bit 22 = 0 falls
\* through to the move branches.
RuleCoprocNoAlternate(b) ==
    IF b.b27 = 1 /\ b.b26 = 1 /\ b.b24 = 0
    THEN IF b.b22 = 1 /\ b.b20 = 1
              THEN (IF b.b25 = 0 THEN "LDC_IMM" ELSE "LDC_REG")
         ELSE IF b.b22 = 1 /\ b.b20 = 0
              THEN (IF b.b25 = 0 THEN "STC_IMM" ELSE "STC_REG")
         ELSE "MCR"
    ELSE FallThrough

\* Lines 156-173.
RuleCoproc(b) ==
    IF b.b27 = 1 /\ b.b26 = 1 /\ b.b24 = 0
    THEN IF b.b22 = 1 /\ b.b20 = 1
              THEN (IF b.b25 = 0 THEN "LDC_IMM" ELSE "LDC_REG")
         ELSE IF b.b22 = 0 /\ b.b20 = 1
              THEN (IF b.b25 = 0 THEN "LDC_IMM" ELSE "LDC_REG")
         ELSE IF b.b22 = 1 /\ b.b20 = 0
              THEN (IF b.b25 = 0 THEN "STC_IMM" ELSE "STC_REG")
         ELSE IF b.b22 = 0 /\ b.b20 = 0
              THEN (IF b.b25 = 0 THEN "STC_IMM" ELSE "STC_REG")
         ELSE IF b.b22 = 1 THEN "MRC"
         ELSE IF b.b22 = 0 THEN "MCR"
         ELSE FallThrough
    ELSE FallThrough

\* Lines 177-178.
RuleBX(b, m) ==
    IF b.b27 = 0 /\ b.b26 = 0 /\ b.b25 = 1 /\ b.b24 = 0 /\ b.b23 = 0
       /\ b.b22 = 1 /\ b.b21 = 0 /\ b.b20 = 0 /\ m = 0
    THEN "BX (possible)"
    ELSE FallThrough

\* A function body that ends without a return statement returns None.
FinalReturnMissing == None

\* A final return with a literal that type_to_handler does not list.
FinalReturnUnlisted == "Reserved"

\* Line 182: the last statement of classify.
FinalReturn == "Undefined/Reserved"

\* The decision list with the Data Processing rule evaluated first.
RuleOrderDataProcFirst(b, m) ==
    << RuleDataProc(b, m), RuleMRS(b, m), RuleMSRImm(b, m), RuleMul(b, m),
       RuleMulLong(b, m), RuleSwap(b, m), RuleSDT(b, m), RuleBranch(b),
       RuleBranch(b), RuleBlock(b), RuleSWI(b), RuleCoproc(b), RuleBX(b, m) >>

\* The rules in the order of the source; a rule that does not return lets
\* control reach the next statement.
RuleOrder(b, m) ==
    << RuleMRS(b, m), RuleMSRImm(b, m), RuleMul(b, m), RuleMulLong(b, m),
       RuleSwap(b, m), RuleDataProc(b, m), RuleSDT(b, m), RuleBranch(b),
       RuleBranch(b), RuleBlock(b), RuleSWI(b), RuleCoproc(b), RuleBX(b, m) >>

classify(bits_27_20, m) ==
    LET rules == RuleOrder(Bits(bits_27_20), m)
        hits  == { r \in DOMAIN rules : rules[r] # FallThrough }
    IN  IF hits = {} THEN FinalReturn
        ELSE rules[CHOOSE r \in hits : \A q \in hits : r <= q]

\* Every string literal classify can return (lines 24-182).
Categories ==
    { "MRS", "MSR_REG", "MSR_IMM", "MUL", "MULS", "MLA", "MLAS",
      "UMULL", "UMULLS", "UMLAL", "UMLALS", "SMULL", "SMULLS", "SMLAL",
      "SMLALS", "SWP", "SWPB", "B", "BL", "LDM", "STM", "SWI",
      "LDC_IMM", "LDC_REG", "STC_IMM", "STC_REG", "MRC", "MCR",
      "BX (possible)", "Other SDT", "Undefined/Reserved" }
    \cup { data_proc_map[op] \o s : op \in 0 .. 15, s \in {"_IMM", "_REG"} }
    \cup { "Other DP" \o s : s \in {"_IMM", "_REG"} }
    \cup { n \o o \o v : n \in {"STR", "STRB", "LDR", "LDRB"},
                         o \in {"_IMM", "_REG"},
                         v \in {"_POST_WB", "_PRE_WB", "_PRE_NOWB"} }

---------------------------------------------------------------------------
(* type_to_handler, src/src/inst_table.py lines 184-294.                   *)

type_to_handler ==
       ("LDR_IMM_PRE_WB" :> "exec_arm_ldr_imm_pre_wb")
    @@ ("LDR_IMM_PRE_NOWB" :> "exec_arm_ldr_imm_pre_nowb")
    @@ ("LDR_IMM_POST_WB" :> "exec_arm_ldr_imm_post_wb")
    @@ ("LDR_IMM_POST_NOWB" :> "exec_arm_ldr_imm_post_nowb")
    @@ ("LDR_REG_PRE_WB" :> "exec_arm_ldr_reg_pre_wb")
    @@ ("LDR_REG_PRE_NOWB" :> "exec_arm_ldr_reg_pre_nowb")
    @@ ("LDR_REG_POST_WB" :> "exec_arm_ldr_reg_post_wb")
    @@ ("LDR_REG_POST_NOWB" :> "exec_arm_ldr_reg_post_nowb")
    @@ ("LDRB_IMM_PRE_WB" :> "exec_arm_ldrb_imm_pre_wb")
    @@ ("LDRB_IMM_PRE_NOWB" :> "exec_arm_ldrb_imm_pre_nowb")
    @@ ("LDRB_IMM_POST_WB" :> "exec_arm_ldrb_imm_post_wb")
    @@ ("LDRB_IMM_POST_NOWB" :> "exec_arm_ldrb_imm_post_nowb")
    @@ ("LDRB_REG_PRE_WB" :> "exec_arm_ldrb_reg_pre_wb")
    @@ ("LDRB_REG_PRE_NOWB" :> "exec_arm_ldrb_reg_pre_nowb")
    @@ ("LDRB_REG_POST_WB" :> "exec_arm_ldrb_reg_post_wb")
    @@ ("LDRB_REG_POST_NOWB" :> "exec_arm_ldrb_reg_post_nowb")
    @@ ("STR_IMM_PRE_WB" :> "exec_arm_str_imm_pre_wb")
    @@ ("STR_IMM_PRE_NOWB" :> "exec_arm_str_imm_pre_nowb")
    @@ ("STR_IMM_POST_WB" :> "exec_arm_str_imm_post_wb")
    @@ ("STR_IMM_POST_NOWB" :> "exec_arm_str_imm_post_nowb")
    @@ ("STR_REG_PRE_WB" :> "exec_arm_str_reg_pre_wb")
    @@ ("STR_REG_PRE_NOWB" :> "exec_arm_str_reg_pre_nowb")
    @@ ("STR_REG_POST_WB" :> "exec_arm_str_reg_post_wb")
    @@ ("STR_REG_POST_NOWB" :> "exec_arm_str_reg_post_nowb")
    @@ ("STRB_IMM_PRE_WB" :> "exec_arm_strb_imm_pre_wb")
    @@ ("STRB_IMM_PRE_NOWB" :> "exec_arm_strb_imm_pre_nowb")
    @@ ("STRB_IMM_POST_WB" :> "exec_arm_strb_imm_post_wb")
    @@ ("STRB_IMM_POST_NOWB" :> "exec_arm_strb_imm_post_nowb")
    @@ ("STRB_REG_PRE_WB" :> "exec_arm_strb_reg_pre_wb")
    @@ ("STRB_REG_PRE_NOWB" :> "exec_arm_strb_reg_pre_nowb")
    @@ ("STRB_REG_POST_WB" :> "exec_arm_strb_reg_post_wb")
    @@ ("STRB_REG_POST_NOWB" :> "exec_arm_strb_reg_post_nowb")
    @@ ("MLA" :> "exec_arm_mla")
    @@ ("MLAS" :> "exec_arm_mla")
    @@ ("MUL" :> "exec_arm_mul")
    @@ ("MULS" :> "exec_arm_mul")
    @@ ("SMLAL" :> "exec_arm_smlal")
    @@ ("SMLALS" :> "exec_arm_smlal")
    @@ ("SMULL" :> "exec_arm_smull")
    @@ ("SMULLS" :> "exec_arm_smull")
    @@ ("SWP" :> "exec_arm_swp")
    @@ ("SWPB" :> "exec_arm_swpb")
    @@ ("UMLAL" :> "exec_arm_umlal")
    @@ ("UMLALS" :> "exec_arm_umlal")
    @@ ("UMULL" :> "exec_arm_umull")
    @@ ("UMULLS" :> "exec_arm_umull")
    @@ ("ADC_IMM" :> "exec_arm_adc_imm")
    @@ ("ADC_REG" :> "exec_arm_adc_reg")
    @@ ("ADD_IMM" :> "exec_arm_add_imm")
    @@ ("ADD_REG" :> "exec_arm_add_reg")
    @@ ("AND_IMM" :> "exec_arm_and_imm")
    @@ ("AND_REG" :> "exec_arm_and_reg")
    @@ ("BIC_IMM" :> "exec_arm_bic_imm")
    @@ ("BIC_REG" :> "exec_arm_bic_reg")
    @@ ("CMN_IMM" :> "exec_arm_cmn_imm")
    @@ ("CMN_REG" :> "exec_arm_cmn_reg")
    @@ ("CMP_IMM" :> "exec_arm_cmp_imm")
    @@ ("CMP_REG" :> "exec_arm_cmp_reg")
    @@ ("EOR_IMM" :> "exec_arm_eor_imm")
    @@ ("EOR_REG" :> "exec_arm_eor_reg")
    @@ ("MOV_IMM" :> "exec_arm_mov_imm")
    @@ ("MOV_REG" :> "exec_arm_mov_reg")
    @@ ("MVN_IMM" :> "exec_arm_mvn_imm")
    @@ ("MVN_REG" :> "exec_arm_mvn_reg")
    @@ ("ORR_IMM" :> "exec_arm_orr_imm")
    @@ ("ORR_REG" :> "exec_arm_orr_reg")
    @@ ("RSB_IMM" :> "exec_arm_rsb_imm")
    @@ ("RSB_REG" :> "exec_arm_rsb_reg")
    @@ ("RSC_IMM" :> "exec_arm_rsc_imm")
    @@ ("RSC_REG" :> "exec_arm_rsc_reg")
    @@ ("SBC_IMM" :> "exec_arm_sbc_imm")
    @@ ("SBC_REG" :> "exec_arm_sbc_reg")
    @@ ("SUB_IMM" :> "exec_arm_sub_imm")
    @@ ("SUB_REG" :> "exec_arm_sub_reg")
    @@ ("TEQ_IMM" :> "exec_arm_teq_imm")
    @@ ("TEQ_REG" :> "exec_arm_teq_reg")
    @@ ("TST_IMM" :> "exec_arm_tst_imm")
    @@ ("TST_REG" :> "exec_arm_tst_reg")
    @@ ("B" :> "exec_arm_b")
    @@ ("BL" :> "exec_arm_bl")
    @@ ("LDM" :> "exec_arm_ldm")
    @@ ("STM" :> "exec_arm_stm")
    @@ ("SWI" :> "exec_arm_software_interrupt")
    @@ ("LDC_IMM" :> "exec_arm_ldc_imm")
    @@ ("LDC_REG" :> "exec_arm_ldc_reg")
    @@ ("MCR" :> "exec_arm_mcr")
    @@ ("MRC" :> "exec_arm_mrc")
    @@ ("STC_IMM" :> "exec_arm_stc_imm")
    @@ ("STC_REG" :> "exec_arm_stc_reg")
    @@ ("BX (possible)" :> "exec_arm_bx_possible")
    @@ ("MRS" :> "exec_arm_mrs")
    @@ ("MSR_REG" :> "exec_arm_msr_reg")
    @@ ("MSR_IMM" :> "exec_arm_msr_imm")
    @@ ("Undefined/Reserved" :> "exec_arm_undefined")

\* Line 302: the handler stored when the category has no entry.
FallbackHandler == "exec_arm_undefined"

---------------------------------------------------------------------------
(* The build loop, src/src/inst_table.py lines 296-302.                    *)

\* Line 297: [None] * 512
TableSize == 512
\* Line 298: range(256)
OpcodeCount == 256

\* A key computed without the shift: opcodes collide.
NewIdxNoShift(ix, m) == BitOr(ix, m)

\* A key with the discriminator above the opcode bits instead of below.
NewIdxDiscriminatorHigh(ix, m) == BitOr(ix, ShiftLeft(m, 8))

\* Line 300: new_idx = (idx << 1) | mul_swp_bit
NewIdx(ix, m) == BitOr(ShiftLeft(ix, 1), m)

\* type_to_handler.get(mnemonic): without the second argument a missing
\* category resolves to None.
ResolveNoFallback(d, mn) == DictGet(d, mn, None)

\* Line 302: type_to_handler.get(mnemonic, "exec_arm_undefined")
Resolve(d, mn) == DictGet(d, mn, FallbackHandler)

\* One iteration of the inner loop (lines 299-302); the iterations run in
\* the order idx = 0..255, mul_swp_bit = 0, 1.
BuildStep ==
    /\ pc = "build"
    /\ step < 2 * OpcodeCount
    /\ LET ix == step \div 2
           m  == step % 2
           k  == NewIdx(ix, m)
           mn == classify(ix, m)
       IN  /\ idx' = ix
           /\ mul_swp_bit' = m
           /\ new_idx' = k
           /\ mnemonic' = mn
           /\ handler_array' =
                 [handler_array EXCEPT ![k + 1] = Resolve(lookup, mn)]
           /\ writes' = [writes EXCEPT ![k] = @ + 1]
    /\ step' = step + 1
    /\ UNCHANGED << pc, lookup, emitVars, checkVars, parseVars >>

\* The loop of lines 298-302 has run to its end.
BuildDone == pc = "build" /\ step = 2 * OpcodeCount

---------------------------------------------------------------------------
(* emit_repeat_macro and the macros of the boilerplate,                    *)
(* src/src/inst_table.py lines 304-318 and 335-376.                        *)
(* An emitted line "code  // comment" is the record                        *)
(*   macro, args : the macro of the code and the handlers of its ARM_FN    *)
(*                 arguments ("LIST" is the explicit comma-separated list) *)
(*   start, last : the index range of the comment                          *)
(*   tag         : the pattern word that ends the comment                  *)
(* A single handler is passed as the 1-tuple <<h>>, a pair as <<a, b>>.    *)

Copies(h, c) == [ k \in 1 .. c |-> h ]

emit_repeat_macro(h, c, s) ==
    IF Len(h) = 2
    THEN LET a == h[1]
             b == h[2]
         IN  IF c = 4
             THEN [ macro |-> "REPEAT_ALT", args |-> << a, b >>,
                    start |-> s, last |-> s + c - 1, tag |-> "ABAB" ]
             ELSE IF c = 4
             THEN [ macro |-> "REPEAT_2ALT", args |-> << a, b >>,
                    start |-> s, last |-> s + c - 1, tag |-> "AABBAABB" ]
             ELSE [ macro |-> "LIST",
                    args  |-> [ k \in 1 .. c |->
                                  IF (k - 1) % 2 = 0 THEN a ELSE b ],
                    start |-> s, last |-> s + c - 1, tag |-> "ALT" ]
    ELSE LET name == IF c = 1 THEN "ARM_FN"
                     ELSE IF c = 2 THEN "REPEAT_2"
                     ELSE IF c = 4 THEN "REPEAT_4"
                     ELSE IF c = 8 THEN "REPEAT_8"
                     ELSE IF c = 16 THEN "REPEAT_16"
                     ELSE IF c = 32 THEN "REPEAT_32"
                     ELSE IF c = 64 THEN "REPEAT_64"
                     ELSE IF c = 128 THEN "REPEAT_128"
                     ELSE "LIST"
         IN  [ macro |-> name,
               args  |-> IF name = "LIST" THEN Copies(h[1], c) ELSE h,
               start |-> s,
               last  |-> IF c = 1 THEN s ELSE s + c - 1,
               tag   |-> "" ]

RECURSIVE ExpandMacro(_, _)
\* The #define lines of the boilerplate (lines 306-315), applied to the
\* argument handlers.
ExpandMacro(name, args) ==
    CASE name = "ARM_FN"      -> << args[1] >>
      [] name = "REPEAT_2"    -> << args[1], args[1] >>
      [] name = "REPEAT_4"    -> << args[1], args[1], args[1], args[1] >>
      [] name = "REPEAT_8"    -> << args[1], args[1], args[1], args[1],
                                    args[1], args[1], args[1], args[1] >>
      [] name = "REPEAT_16"   -> ExpandMacro("REPEAT_8", args)
                                 \o ExpandMacro("REPEAT_8", args)
      [] name = "REPEAT_32"   -> ExpandMacro("REPEAT_16", args)
                                 \o ExpandMacro("REPEAT_16", args)
      [] name = "REPEAT_64"   -> ExpandMacro("REPEAT_32", args)
                                 \o ExpandMacro("REPEAT_32", args)
      [] name = "REPEAT_128"  -> ExpandMacro("REPEAT_64", args)
                                 \o ExpandMacro("REPEAT_64", args)
      [] name = "REPEAT_ALT"  -> << args[1], args[2], args[1], args[2] >>
      [] name = "REPEAT_2ALT" -> << args[1], args[1], args[2], args[2],
                                    args[1], args[1], args[2], args[2] >>
      [] name = "LIST"        -> args

RECURSIVE ExpandLines(_)
\* The initializer list the C++ preprocessor makes of the emitted lines:
\* the expansions of the lines, in order.
ExpandLines(lines) ==
    IF lines = << >> THEN << >>
    ELSE IF Len(lines) = 1 THEN ExpandMacro(lines[1].macro, lines[1].args)
    ELSE LET half == Len(lines) \div 2
         IN  ExpandLines(SubSeq(lines, 1, half))
             \o ExpandLines(SubSeq(lines, half + 1, Len(lines)))

---------------------------------------------------------------------------
(* generate_cpp_table, src/src/inst_table.py lines 378-426.                *)

\* A list that lacks REPEAT_2.
macros_without_2 == << 128, 64, 32, 16, 8, 4, 1 >>

\* A list with a block size for which emit_repeat_macro has no macro.
macros_with_3 == << 128, 64, 32, 16, 8, 4, 3, 2, 1 >>

\* A list that lacks the block size 1.
macros_without_1 == << 128, 64, 32, 16, 8, 4, 2 >>

\* Line 382.
macros == << 128, 64, 32, 16, 8, 4, 2, 1 >>

\* Lines 385-394: the window i .. i+3 reads a, b, a, b with a != b.
IsABAB(arr, p) ==
    /\ p + 3 < Len(arr)
    /\ LET a == At(arr, p)
           b == At(arr, p + 1)
       IN  /\ \A j \in 0 .. 3 :
                 At(arr, p + j) = (IF j % 2 = 0 THEN a ELSE b)
           /\ a # b

\* Lines 399-408: the window i .. i+3 reads a, a, b, b with a != b.
IsAABB(arr, p) ==
    /\ p + 3 < Len(arr)
    /\ LET a == At(arr, p)
           b == At(arr, p + 2)
       IN  /\ \A j \in 0 .. 3 :
                 At(arr, p + j) = (IF j < 2 THEN a ELSE b)
           /\ a # b

\* An alternation run that advances by its period only.
AdvanceAltByPeriod(p) == p + 2

\* Lines 396 and 410: i += 4
AdvanceAlt(p) == p + 4

\* A scan that takes every run to be one entry long.
RunLengthOne(arr, p) == 1

\* Lines 415-417: count grows from 1 while i + count < n and the entry at
\* i + count is the handler at i; the loop stops at the least count for
\* which the condition fails.
RunLength(arr, p) ==
    LET stops == { c \in 1 .. Len(arr) - p :
                     ~ (p + c < Len(arr) /\ At(arr, p + c) = At(arr, p)) }
    IN  CHOOSE c \in stops : \A d \in stops : c <= d

\* Lines 386-397.
ScanABAB ==
    /\ pc = "scan"
    /\ i < Len(handler_array)
    /\ IsABAB(handler_array, i)
    /\ output' = Append(output,
                        emit_repeat_macro(<< At(handler_array, i),
                                             At(handler_array, i + 1) >>, 4, i))
    /\ i' = AdvanceAlt(i)
    /\ UNCHANGED << pc, handler_array, handler, start, count, fn_names,
                    buildVars, checkVars, parseVars >>

\* Lines 399-411.
ScanAABB ==
    /\ pc = "scan"
    /\ i < Len(handler_array)
    /\ ~ IsABAB(handler_array, i)
    /\ IsAABB(handler_array, i)
    /\ output' = Append(output,
                        emit_repeat_macro(<< At(handler_array, i),
                                             At(handler_array, i + 2) >>, 4, i))
    /\ i' = AdvanceAlt(i)
    /\ UNCHANGED << pc, handler_array, handler, start, count, fn_names,
                    buildVars, checkVars, parseVars >>

\* Lines 413-417.
ScanRun ==
    /\ pc = "scan"
    /\ i < Len(handler_array)
    /\ ~ IsABAB(handler_array, i)
    /\ ~ IsAABB(handler_array, i)
    /\ handler' = At(handler_array, i)
    /\ start' = i
    /\ count' = RunLength(handler_array, i)
    /\ pc' = "decomp"
    /\ UNCHANGED << handler_array, i, output, fn_names, buildVars, checkVars,
                    parseVars >>

\* Lines 418-424: one pass of the while loop; the for loop takes the first
\* block size that fits (and the pass changes nothing when none does).
DecompStep ==
    /\ pc = "decomp"
    /\ count > 0
    /\ LET fits == { k \in DOMAIN macros : count >= macros[k] }
       IN  IF fits = {}
           THEN UNCHANGED << output, start, count >>
           ELSE LET m == macros[CHOOSE k \in fits : \A q \in fits : k <= q]
                IN  /\ output' = Append(output,
                                        emit_repeat_macro(<< handler >>, m, start))
                    /\ start' = start + m
                    /\ count' = count - m
    /\ UNCHANGED << pc, handler_array, i, handler, fn_names, buildVars,
                    checkVars, parseVars >>

\* Line 425.
DecompDone ==
    /\ pc = "decomp"
    /\ count = 0
    /\ i' = start
    /\ pc' = "scan"
    /\ UNCHANGED << handler_array, handler, start, count, output, fn_names,
                    buildVars, checkVars, parseVars >>

\* Lines 383 and 426: the while condition fails and the lines are returned.
EmitReturn ==
    /\ pc = "scan"
    /\ ~ (i < Len(handler_array))
    /\ pc' = "emitted"
    /\ UNCHANGED << handler_array, emitVars, buildVars, checkVars,
                    parseVars >>

\* generate_cpp_fn_name_table, lines 429-435: one line per entry, the
\* name between quotes and the index in the comment.
GenFnNames ==
    /\ pc = "emitted"
    /\ fn_names' = [ k \in 1 .. Len(handler_array) |->
                       [ name |-> handler_array[k], index |-> k - 1 ] ]
    /\ pc' = "done"
    /\ UNCHANGED << handler_array, i, handler, start, count, output,
                    buildVars, checkVars, parseVars >>

\* Lines 437-439: the script calls generate_cpp_table(handler_array) once
\* the table is built (lines 379-381 initialise the scan).
MainGenerate ==
    /\ BuildDone
    /\ pc' = "scan"
    /\ i' = 0
    /\ output' = << >>
    /\ UNCHANGED << handler_array, handler, start, count, fn_names,
                    buildVars, checkVars, parseVars >>


---------------------------------------------------------------------------
(* mgba_to_yours, src/src/cross_check_tables.py lines 4-233.               *)

\* Lines 5-69: the "Data processing" group.
mgba_data_processing ==
       ("AND_LSL" :> "exec_arm_and_reg")
    @@ ("AND_LSR" :> "exec_arm_and_reg")
    @@ ("AND_ASR" :> "exec_arm_and_reg")
    @@ ("AND_ROR" :> "exec_arm_and_reg")
    @@ ("ANDS_LSL" :> "exec_arm_and_reg")
    @@ ("ANDS_LSR" :> "exec_arm_and_reg")
    @@ ("ANDS_ASR" :> "exec_arm_and_reg")
    @@ ("ANDS_ROR" :> "exec_arm_and_reg")
    @@ ("EOR_LSL" :> "exec_arm_eor_reg")
    @@ ("EOR_LSR" :> "exec_arm_eor_reg")
    @@ ("EOR_ASR" :> "exec_arm_eor_reg")
    @@ ("EOR_ROR" :> "exec_arm_eor_reg")
    @@ ("EORS_LSL" :> "exec_arm_eor_reg")
    @@ ("EORS_LSR" :> "exec_arm_eor_reg")
    @@ ("EORS_ASR" :> "exec_arm_eor_reg")
    @@ ("EORS_ROR" :> "exec_arm_eor_reg")
    @@ ("SUB_LSL" :> "exec_arm_sub_reg")
    @@ ("SUB_LSR" :> "exec_arm_sub_reg")
    @@ ("SUB_ASR" :> "exec_arm_sub_reg")
    @@ ("SUB_ROR" :> "exec_arm_sub_reg")
    @@ ("SUBS_LSL" :> "exec_arm_sub_reg")
    @@ ("SUBS_LSR" :> "exec_arm_sub_reg")
    @@ ("SUBS_ASR" :> "exec_arm_sub_reg")
    @@ ("SUBS_ROR" :> "exec_arm_sub_reg")
    @@ ("RSB_LSL" :> "exec_arm_rsb_reg")
    @@ ("RSB_LSR" :> "exec_arm_rsb_reg")
    @@ ("RSB_ASR" :> "exec_arm_rsb_reg")
    @@ ("RSB_ROR" :> "exec_arm_rsb_reg")
    @@ ("RSBS_LSL" :> "exec_arm_rsb_reg")
    @@ ("RSBS_LSR" :> "exec_arm_rsb_reg")
    @@ ("RSBS_ASR" :> "exec_arm_rsb_reg")
    @@ ("RSBS_ROR" :> "exec_arm_rsb_reg")
    @@ ("ADD_LSL" :> "exec_arm_add_reg")
    @@ ("ADD_LSR" :> "exec_arm_add_reg")
    @@ ("ADD_ASR" :> "exec_arm_add_reg")
    @@ ("ADD_ROR" :> "exec_arm_add_reg")
    @@ ("ADDS_LSL" :> "exec_arm_add_reg")
    @@ ("ADDS_LSR" :> "exec_arm_add_reg")
    @@ ("ADDS_ASR" :> "exec_arm_add_reg")
    @@ ("ADDS_ROR" :> "exec_arm_add_reg")
    @@ ("ADC_LSL" :> "exec_arm_adc_reg")
    @@ ("ADC_LSR" :> "exec_arm_adc_reg")
    @@ ("ADC_ASR" :> "exec_arm_adc_reg")
    @@ ("ADC_ROR" :> "exec_arm_adc_reg")
    @@ ("ADCS_LSL" :> "exec_arm_adc_reg")
    @@ ("ADCS_LSR" :> "exec_arm_adc_reg")
    @@ ("ADCS_ASR" :> "exec_arm_adc_reg")
    @@ ("ADCS_ROR" :> "exec_arm_adc_reg")
    @@ ("SBC_LSL" :> "exec_arm_sbc_reg")
    @@ ("SBC_LSR" :> "exec_arm_sbc_reg")
    @@ ("SBC_ASR" :> "exec_arm_sbc_reg")
    @@ ("SBC_ROR" :> "exec_arm_sbc_reg")
    @@ ("SBCS_LSL" :> "exec_arm_sbc_reg")
    @@ ("SBCS_LSR" :> "exec_arm_sbc_reg")
    @@ ("SBCS_ASR" :> "exec_arm_sbc_reg")
    @@ ("SBCS_ROR" :> "exec_arm_sbc_reg")
    @@ ("RSC_LSL" :> "exec_arm_rsc_reg")
    @@ ("RSC_LSR" :> "exec_arm_rsc_reg")
    @@ ("RSC_ASR" :> "exec_arm_rsc_reg")
    @@ ("RSC_ROR" :> "exec_arm_rsc_reg")
    @@ ("RSCS_LSL" :> "exec_arm_rsc_reg")
    @@ ("RSCS_LSR" :> "exec_arm_rsc_reg")
    @@ ("RSCS_ASR" :> "exec_arm_rsc_reg")
    @@ ("RSCS_ROR" :> "exec_arm_rsc_reg")

\* Lines 70-140: the groups from "Multiply" to "Move/orr/bic/mvn".
mgba_multiply_to_move ==
       ("MUL" :> "exec_arm_mul")
    @@ ("MULS" :> "exec_arm_mul")
    @@ ("MLA" :> "exec_arm_mla")
    @@ ("MLAS" :> "exec_arm_mla")
    @@ ("UMULL" :> "exec_arm_umull")
    @@ ("UMULLS" :> "exec_arm_umull")
    @@ ("UMLAL" :> "exec_arm_umlal")
    @@ ("UMLALS" :> "exec_arm_umlal")
    @@ ("SMULL" :> "exec_arm_smull")
    @@ ("SMULLS" :> "exec_arm_smull")
    @@ ("SMLAL" :> "exec_arm_smlal")
    @@ ("SMLALS" :> "exec_arm_smlal")
    @@ ("SWP" :> "exec_arm_swp")
    @@ ("SWPB" :> "exec_arm_swpb")
    @@ ("MRS" :> "exec_arm_mrs")
    @@ ("MSR" :> "exec_arm_msr")
    @@ ("MRSR" :> "exec_arm_undefined")
    @@ ("MSRR" :> "exec_arm_undefined")
    @@ ("TST_LSL" :> "exec_arm_tst_reg")
    @@ ("TST_LSR" :> "exec_arm_tst_reg")
    @@ ("TST_ASR" :> "exec_arm_tst_reg")
    @@ ("TST_ROR" :> "exec_arm_tst_reg")
    @@ ("TEQ_LSL" :> "exec_arm_teq_reg")
    @@ ("TEQ_LSR" :> "exec_arm_teq_reg")
    @@ ("TEQ_ASR" :> "exec_arm_teq_reg")
    @@ ("TEQ_ROR" :> "exec_arm_teq_reg")
    @@ ("CMP_LSL" :> "exec_arm_cmp_reg")
    @@ ("CMP_LSR" :> "exec_arm_cmp_reg")
    @@ ("CMP_ASR" :> "exec_arm_cmp_reg")
    @@ ("CMP_ROR" :> "exec_arm_cmp_reg")
    @@ ("CMN_LSL" :> "exec_arm_cmn_reg")
    @@ ("CMN_LSR" :> "exec_arm_cmn_reg")
    @@ ("CMN_ASR" :> "exec_arm_cmn_reg")
    @@ ("CMN_ROR" :> "exec_arm_cmn_reg")
    @@ ("ORR_LSL" :> "exec_arm_orr_reg")
    @@ ("ORR_LSR" :> "exec_arm_orr_reg")
    @@ ("ORR_ASR" :> "exec_arm_orr_reg")
    @@ ("ORR_ROR" :> "exec_arm_orr_reg")
    @@ ("ORRS_LSL" :> "exec_arm_orr_reg")
    @@ ("ORRS_LSR" :> "exec_arm_orr_reg")
    @@ ("ORRS_ASR" :> "exec_arm_orr_reg")
    @@ ("ORRS_ROR" :> "exec_arm_orr_reg")
    @@ ("MOV_LSL" :> "exec_arm_mov_reg")
    @@ ("MOV_LSR" :> "exec_arm_mov_reg")
    @@ ("MOV_ASR" :> "exec_arm_mov_reg")
    @@ ("MOV_ROR" :> "exec_arm_mov_reg")
    @@ ("MOVS_LSL" :> "exec_arm_mov_reg")
    @@ ("MOVS_LSR" :> "exec_arm_mov_reg")
    @@ ("MOVS_ASR" :> "exec_arm_mov_reg")
    @@ ("MOVS_ROR" :> "exec_arm_mov_reg")
    @@ ("BIC_LSL" :> "exec_arm_bic_reg")
    @@ ("BIC_LSR" :> "exec_arm_bic_reg")
    @@ ("BIC_ASR" :> "exec_arm_bic_reg")
    @@ ("BIC_ROR" :> "exec_arm_bic_reg")
    @@ ("BICS_LSL" :> "exec_arm_bic_reg")
    @@ ("BICS_LSR" :> "exec_arm_bic_reg")
    @@ ("BICS_ASR" :> "exec_arm_bic_reg")
    @@ ("BICS_ROR" :> "exec_arm_bic_reg")
    @@ ("MVN_LSL" :> "exec_arm_mvn_reg")
    @@ ("MVN_LSR" :> "exec_arm_mvn_reg")
    @@ ("MVN_ASR" :> "exec_arm_mvn_reg")
    @@ ("MVN_ROR" :> "exec_arm_mvn_reg")
    @@ ("MVNS_LSL" :> "exec_arm_mvn_reg")
    @@ ("MVNS_LSR" :> "exec_arm_mvn_reg")
    @@ ("MVNS_ASR" :> "exec_arm_mvn_reg")
    @@ ("MVNS_ROR" :> "exec_arm_mvn_reg")

\* Lines 141-232: the groups from "Immediate variants" to "Undefined".
mgba_immediate_to_undefined ==
       ("ANDI" :> "exec_arm_and_imm")
    @@ ("ANDSI" :> "exec_arm_and_imm")
    @@ ("EORI" :> "exec_arm_eor_imm")
    @@ ("EORSI" :> "exec_arm_eor_imm")
    @@ ("SUBI" :> "exec_arm_sub_imm")
    @@ ("SUBSI" :> "exec_arm_sub_imm")
    @@ ("RSBI" :> "exec_arm_rsb_imm")
    @@ ("RSBSI" :> "exec_arm_rsb_imm")
    @@ ("ADDI" :> "exec_arm_add_imm")
    @@ ("ADDSI" :> "exec_arm_add_imm")
    @@ ("ADCI" :> "exec_arm_adc_imm")
    @@ ("ADCSI" :> "exec_arm_adc_imm")
    @@ ("SBCI" :> "exec_arm_sbc_imm")
    @@ ("SBCSI" :> "exec_arm_sbc_imm")
    @@ ("RSCI" :> "exec_arm_rsc_imm")
    @@ ("RSCSI" :> "exec_arm_rsc_imm")
    @@ ("TSTI" :> "exec_arm_tst_imm")
    @@ ("TEQI" :> "exec_arm_teq_imm")
    @@ ("CMPI" :> "exec_arm_cmp_imm")
    @@ ("CMNI" :> "exec_arm_cmn_imm")
    @@ ("ORRI" :> "exec_arm_orr_imm")
    @@ ("ORRSI" :> "exec_arm_orr_imm")
    @@ ("MOVI" :> "exec_arm_mov_imm")
    @@ ("MOVSI" :> "exec_arm_mov_imm")
    @@ ("BICI" :> "exec_arm_bic_imm")
    @@ ("BICSI" :> "exec_arm_bic_imm")
    @@ ("MVNI" :> "exec_arm_mvn_imm")
    @@ ("MVNSI" :> "exec_arm_mvn_imm")
    @@ ("STRI" :> "exec_arm_str_imm_pre_nowb")
    @@ ("LDRI" :> "exec_arm_ldr_imm_pre_nowb")
    @@ ("STRTI" :> "exec_arm_str_imm_pre_wb")
    @@ ("LDRTI" :> "exec_arm_ldr_imm_pre_wb")
    @@ ("STRBI" :> "exec_arm_strb_imm_pre_nowb")
    @@ ("LDRBI" :> "exec_arm_ldrb_imm_pre_nowb")
    @@ ("STRBTI" :> "exec_arm_strb_imm_pre_wb")
    @@ ("LDRBTI" :> "exec_arm_ldrb_imm_pre_wb")
    @@ ("STRIU" :> "exec_arm_str_imm_post_wb")
    @@ ("LDRIU" :> "exec_arm_ldr_imm_post_wb")
    @@ ("STRTIU" :> "exec_arm_str_imm_post_wb")
    @@ ("LDRTIU" :> "exec_arm_ldr_imm_post_wb")
    @@ ("STRBIU" :> "exec_arm_strb_imm_post_wb")
    @@ ("LDRBIU" :> "exec_arm_ldrb_imm_post_wb")
    @@ ("STRBTIU" :> "exec_arm_strb_imm_post_wb")
    @@ ("LDRBTIU" :> "exec_arm_ldrb_imm_post_wb")
    @@ ("STMDA" :> "exec_arm_stm")
    @@ ("LDMDA" :> "exec_arm_ldm")
    @@ ("STMDAW" :> "exec_arm_stm")
    @@ ("LDMDAW" :> "exec_arm_ldm")
    @@ ("STMSDA" :> "exec_arm_stm")
    @@ ("LDMSDA" :> "exec_arm_ldm")
    @@ ("STMSDAW" :> "exec_arm_stm")
    @@ ("LDMSDAW" :> "exec_arm_ldm")
    @@ ("STMIA" :> "exec_arm_stm")
    @@ ("LDMIA" :> "exec_arm_ldm")
    @@ ("STMIAW" :> "exec_arm_stm")
    @@ ("LDMIAW" :> "exec_arm_ldm")
    @@ ("STMSIA" :> "exec_arm_stm")
    @@ ("LDMSIA" :> "exec_arm_ldm")
    @@ ("STMSIAW" :> "exec_arm_stm")
    @@ ("LDMSIAW" :> "exec_arm_ldm")
    @@ ("STMDB" :> "exec_arm_stm")
    @@ ("LDMDB" :> "exec_arm_ldm")
    @@ ("STMDBW" :> "exec_arm_stm")
    @@ ("LDMDBW" :> "exec_arm_ldm")
    @@ ("STMSDB" :> "exec_arm_stm")
    @@ ("LDMSDB" :> "exec_arm_ldm")
    @@ ("STMSDBW" :> "exec_arm_stm")
    @@ ("LDMSDBW" :> "exec_arm_ldm")
    @@ ("STMIB" :> "exec_arm_stm")
    @@ ("LDMIB" :> "exec_arm_ldm")
    @@ ("STMIBW" :> "exec_arm_stm")
    @@ ("LDMIBW" :> "exec_arm_ldm")
    @@ ("STMSIB" :> "exec_arm_stm")
    @@ ("LDMSIB" :> "exec_arm_ldm")
    @@ ("STMSIBW" :> "exec_arm_stm")
    @@ ("LDMSIBW" :> "exec_arm_ldm")
    @@ ("B" :> "exec_arm_b")
    @@ ("BL" :> "exec_arm_bl")
    @@ ("STC" :> "exec_arm_stc_imm")
    @@ ("LDC" :> "exec_arm_ldc_imm")
    @@ ("CDP" :> "exec_arm_undefined")
    @@ ("MCR" :> "exec_arm_undefined")
    @@ ("MRC" :> "exec_arm_undefined")
    @@ ("SWI" :> "exec_arm_software_interrupt")
    @@ ("ILL" :> "exec_arm_undefined")

\* The dict with one entry mistyped: ANDS_ROR sent to the immediate handler.
mgba_to_yours_typo ==
    ("ANDS_ROR" :> "exec_arm_and_imm")
    @@ mgba_data_processing @@ mgba_multiply_to_move
    @@ mgba_immediate_to_undefined

\* Lines 4-233: the whole dict (its keys are distinct).
mgba_to_yours ==
    mgba_data_processing @@ mgba_multiply_to_move
    @@ mgba_immediate_to_undefined

---------------------------------------------------------------------------
(* parse_your_table, src/src/cross_check_tables.py lines 247-256.  A line  *)
(* of the file is a sequence of tokens; " " is white space, ")" is the     *)
(* only token that contains a closing parenthesis.                         *)

\* The leading \s* of the pattern: position of the first token that is
\* not white space, Len(line) + 1 if there is none.
SkipSpace(line) ==
    LET stops == { p \in 1 .. Len(line) : line[p] # " " }
                 \cup { Len(line) + 1 }
    IN  CHOOSE p \in stops : \A q \in stops : p <= q

\* The end of ([^)]+)\): position of the first ")" after position p,
\* 0 if there is none.
CloseParen(line, p) ==
    LET closes == { q \in p + 1 .. Len(line) : line[q] = ")" }
    IN  IF closes = {} THEN 0
        ELSE CHOOSE q \in closes : \A r \in closes : q <= r

RECURSIVE Concat(_)
\* The text of a sequence of tokens.
Concat(toks) ==
    IF toks = << >> THEN "" ELSE Head(toks) \o Concat(Tail(toks))

\* A pattern whose group runs to the last ")" of the line instead of the
\* first.
MatchEntryGreedy(line) ==
    LET p == SkipSpace(line)
        closes == { q \in p + 1 .. Len(line) : line[q] = ")" }
        q == IF closes = {} THEN 0
             ELSE CHOOSE c \in closes : \A r \in closes : r <= c
    IN  IF p <= Len(line) /\ line[p] = "ARM_FN(" /\ q > p + 1
        THEN Concat(SubSeq(line, p + 1, q - 1))
        ELSE None

\* Lines 252-254: re.match(r'\s*ARM_FN\(([^)]+)\)', line), anchored at the
\* start of the line; the result is None or m.group(1).
MatchEntry(line) ==
    LET p == SkipSpace(line)
        q == IF p <= Len(line) THEN CloseParen(line, p) ELSE 0
    IN  IF p <= Len(line) /\ line[p] = "ARM_FN(" /\ q > p + 1
        THEN Concat(SubSeq(line, p + 1, q - 1))
        ELSE None

\* Line 255: table[idx] = handler.
Store(table, k, v) == (k :> v) @@ table

\* Lines 251-255: the loop body for the next line of the file; idx is the
\* index enumerate(f) gives the line.
ParseLine ==
    /\ pc = "parse_yours"
    /\ line_no < Len(inc_lines)
    /\ LET ix == line_no
           mm == MatchEntry(inc_lines[ix + 1])
       IN  your_table' = IF mm # None THEN Store(your_table, ix, mm)
                         ELSE your_table
    /\ line_no' = line_no + 1
    /\ UNCHANGED << pc, handler_array, buildVars, emitVars, mgba_table,
                    todo, key, mgba_handler, your_handler, mapped_handler,
                    visits, printed, mismatches, total, inc_lines >>

\* Line 256.
ParseReturn ==
    /\ pc = "parse_yours"
    /\ line_no = Len(inc_lines)
    /\ pc' = "parsed"
    /\ UNCHANGED << handler_array, buildVars, emitVars, checkVars,
                    parseVars >>

---------------------------------------------------------------------------
(* main, src/src/cross_check_tables.py lines 258-270.  The two parsed      *)
(* tables are the inputs.                                                  *)

RECURSIVE SortedSeq(_)
\* sorted(S) for a set of integers
SortedSeq(S) ==
    IF S = {} THEN << >>
    ELSE LET lo == CHOOSE x \in S : \A y \in S : x <= y
         IN  << lo >> \o SortedSeq(S \ {lo})

\* Line 261.
AllKeys(ref, loc) == DOMAIN ref \cup DOMAIN loc

\* A loop that visits the keys of the reference table only.
LoopKeysRefOnly(ref, loc) == SortedSeq(DOMAIN ref)

\* Line 263: the keys the loop visits, in order.
LoopKeys(ref, loc) == SortedSeq(AllKeys(ref, loc))

\* Line 260: main takes the table parse_your_table returned.
MainParsed ==
    /\ pc = "parsed"
    /\ pc' = "main"
    /\ UNCHANGED << handler_array, buildVars, emitVars, checkVars,
                    parseVars >>

\* Lines 261-263: the key set is built, the counter is zeroed.
MainStart ==
    /\ pc = "main"
    /\ todo' = LoopKeys(mgba_table, your_table)
    /\ mismatches' = 0
    /\ pc' = "validate"
    /\ UNCHANGED << handler_array, buildVars, emitVars, mgba_table,
                    your_table, key, mgba_handler, your_handler,
                    mapped_handler, visits, printed, total, parseVars >>

\* A comparison that treats the unmapped sentinel as a wildcard.
DiffersUnlessUnmapped(mapped, yours) == mapped # "(unmapped)" /\ mapped # yours

\* Line 267.
Differs(mapped, yours) == mapped # yours

\* Lines 263-269: the loop body for the next key.
ValidateStep ==
    /\ pc = "validate"
    /\ todo # << >>
    /\ LET k  == Head(todo)
           mh == DictGet(mgba_table, k, "ILL")
           yh == DictGet(your_table, k, "exec_arm_undefined")
           mp == DictGet(mgba_to_yours, mh, "(unmapped)")
       IN  /\ key' = k
           /\ mgba_handler' = mh
           /\ your_handler' = yh
           /\ mapped_handler' = mp
           /\ visits' = [visits EXCEPT ![k] = @ + 1]
           /\ IF Differs(mp, yh)
              THEN /\ printed' = Append(printed,
                                        [ key |-> k, mgba |-> mh,
                                          mapped |-> mp, yours |-> yh ])
                   /\ mismatches' = mismatches + 1
              ELSE UNCHANGED << printed, mismatches >>
    /\ todo' = Tail(todo)
    /\ UNCHANGED << pc, handler_array, buildVars, emitVars, mgba_table,
                    your_table, total, parseVars >>

\* Line 270.
MainTotal ==
    /\ pc = "validate"
    /\ todo = << >>
    /\ total' = mismatches
    /\ pc' = "checked"
    /\ UNCHANGED << handler_array, buildVars, emitVars, mgba_table,
                    your_table, todo, key, mgba_handler, your_handler,
                    mapped_handler, visits, printed, mismatches, parseVars >>

---------------------------------------------------------------------------
(* Initial states and specifications.                                      *)

\* Values of the variables a run has not assigned yet.  A run that starts
\* at generate_cpp_table or at main of cross_check_tables.py does not
\* execute the build loop and carries no lookup and no write history.
BuildIdle ==
    /\ lookup = << >>
    /\ step = 0 /\ idx = 0 /\ mul_swp_bit = 0 /\ new_idx = 0
    /\ mnemonic = None
    /\ writes = << >>

EmitIdle ==
    /\ i = 0 /\ handler = None /\ start = 0 /\ count = 0
    /\ output = << >> /\ fn_names = << >>

Keys == 0 .. MaxKey - 1

CheckIdle ==
    /\ todo = << >> /\ key = 0
    /\ mgba_handler = None /\ your_handler = None /\ mapped_handler = None
    /\ visits = [ k \in Keys |-> 0 ]
    /\ printed = << >> /\ mismatches = 0 /\ total = 0

ParseIdle == inc_lines = << >> /\ line_no = 0

\* The script inst_table.py: the table before the loop (line 297).
Init ==
    /\ pc = "build"
    /\ handler_array = [ k \in 1 .. TableSize |-> None ]
    /\ lookup = type_to_handler
    /\ step = 0 /\ idx = 0 /\ mul_swp_bit = 0 /\ new_idx = 0
    /\ mnemonic = None
    /\ writes = [ k \in 0 .. TableSize - 1 |-> 0 ]
    /\ EmitIdle /\ CheckIdle /\ ParseIdle
    /\ mgba_table = << >> /\ your_table = << >>

Next ==
    \/ BuildStep
    \/ MainGenerate
    \/ ScanABAB
    \/ ScanAABB
    \/ ScanRun
    \/ DecompStep
    \/ DecompDone
    \/ EmitReturn
    \/ GenFnNames

Spec == Init /\ [][Next]_vars

\* Categories that may be missing from the lookup, in the order they are
\* taken out.
RemovableOrder ==
    << "Undefined/Reserved", "MUL", "AND_REG", "B", "STR_IMM_POST_WB",
       "SWI", "LDM", "MRS" >>

Removable ==
    { RemovableOrder[k] : k \in 1 .. MaxRemovable } \cap DOMAIN type_to_handler

\* The build loop with a lookup from which entries have been removed.
InitLookup ==
    /\ pc = "build"
    /\ handler_array = [ k \in 1 .. TableSize |-> None ]
    /\ \E gone \in SUBSET Removable :
          lookup = [ c \in DOMAIN type_to_handler \ gone |-> type_to_handler[c] ]
    /\ step = 0 /\ idx = 0 /\ mul_swp_bit = 0 /\ new_idx = 0
    /\ mnemonic = None
    /\ writes = [ k \in 0 .. TableSize - 1 |-> 0 ]
    /\ EmitIdle /\ CheckIdle /\ ParseIdle
    /\ mgba_table = << >> /\ your_table = << >>

NextLookup == BuildStep

SpecLookup == InitLookup /\ [][NextLookup]_vars

\* Handler names of the emitter's input tables.
EmitAlphabet == { "exec_arm_stm", "exec_arm_ldm", "exec_arm_undefined" }

\* Every table of at most MaxLen entries over the alphabet.
SmallTables == UNION { [ 1 .. len -> EmitAlphabet ] : len \in 0 .. MaxLen }

\* A uniform run of every length up to MaxRun, alone and between two
\* entries of another handler.
LongTables ==
    { Copies("exec_arm_stm", len) : len \in 1 .. MaxRun }
    \cup { << "exec_arm_ldm" >> \o Copies("exec_arm_stm", len)
           \o << "exec_arm_ldm" >> : len \in 1 .. MaxRun }

\* generate_cpp_table called on an arbitrary table (lines 379-381 done).
InitEmit ==
    /\ pc = "scan"
    /\ handler_array \in SmallTables \cup LongTables
    /\ BuildIdle /\ EmitIdle /\ CheckIdle /\ ParseIdle
    /\ mgba_table = << >> /\ your_table = << >>

NextEmit ==
    \/ ScanABAB
    \/ ScanAABB
    \/ ScanRun
    \/ DecompStep
    \/ DecompDone
    \/ EmitReturn
    \/ GenFnNames

SpecEmit == InitEmit /\ [][NextEmit]_vars

\* The emitter run by the interpreter: a single thread that takes the next
\* step of generate_cpp_table whenever there is one.
SpecEmitFair == InitEmit /\ [][NextEmit]_vars /\ WF_vars(NextEmit)

\* Lines of a generated include file (boilerplate, lines 304-318, and
\* emit_repeat_macro, lines 335-376), and an entry line without indent.
LineKinds ==
    { << >>,
      << " ", "// Table of 512 entries indexed by bits 27-19 (9 bits)" >>,
      << " ", "#define", " ", "ARM_FN(", "func", ")", " ", "&ARMCPU::func" >>,
      << " ", "ARM_FN(", "exec_arm_and_reg", ")", ",", " ",
         "// 0x000: exec_arm_and_reg" >>,
      << "ARM_FN(", "exec_arm_undefined", ")", "," >>,
      << " ", "REPEAT_2(", "ARM_FN(", "exec_arm_and_reg", ")", ")", ",",
         " ", "// 0x000-0x001: exec_arm_and_reg" >> }

\* Every file of at most MaxLines lines.
IncFiles == UNION { [ 1 .. len -> LineKinds ] : len \in 0 .. MaxLines }

\* parse_your_table called on a file (lines 249-250 done).
InitParse ==
    /\ pc = "parse_yours"
    /\ inc_lines \in IncFiles
    /\ line_no = 0
    /\ handler_array = << >>
    /\ BuildIdle /\ EmitIdle /\ CheckIdle
    /\ mgba_table = << >> /\ your_table = << >>

NextParse ==
    \/ ParseLine
    \/ ParseReturn

SpecParse == InitParse /\ [][NextParse]_vars

\* Foreign names of the validator's small input tables: one with a
\* canonical name, the undefined sentinel, and one without a mapping.
RefNames == { "AND_LSL", "ILL", "BX" }

\* Local names of the validator's input tables.
LocalNames == { "exec_arm_and_reg", "exec_arm_undefined" }

\* Partial tables over the keys.
PartialTables(names) == UNION { [ D -> names ] : D \in SUBSET Keys }

\* main started on two parsed tables: every pair of small partial tables,
\* and every mapped foreign name at key 0 against each local name.
InitValidate ==
    /\ pc = "main"
    /\ \/ /\ mgba_table \in PartialTables(RefNames)
          /\ your_table \in PartialTables(LocalNames)
       \/ /\ mgba_table \in { (0 :> nm) : nm \in DOMAIN mgba_to_yours }
          /\ your_table \in { (0 :> h) : h \in LocalNames }
    /\ handler_array = << >>
    /\ BuildIdle /\ EmitIdle /\ CheckIdle /\ ParseIdle

NextValidate ==
    \/ MainStart
    \/ ValidateStep
    \/ MainTotal

SpecValidate == InitValidate /\ [][NextValidate]_vars

\* Lines of the files given to main: an empty line, an entry line, and an
\* entry line whose argument is the text of the unmapped sentinel.
MainLineKinds ==
    { << >>,
      << " ", "ARM_FN(", "exec_arm_undefined", ")", "," >>,
      << " ", "ARM_FN(", "(unmapped", ")", ")", "," >> }

\* main of cross_check_tables.py from line 260 on: the reference table is
\* parsed (empty or one entry), the local file is still to be read.
InitMain ==
    /\ pc = "parse_yours"
    /\ inc_lines \in UNION { [ 1 .. len -> MainLineKinds ] :
                               len \in 0 .. MaxLines }
    /\ line_no = 0
    /\ mgba_table \in { << >> }
                      \cup { (k :> nm) : k \in Keys, nm \in RefNames }
    /\ your_table = << >>
    /\ handler_array = << >>
    /\ BuildIdle /\ EmitIdle
    /\ todo = << >> /\ key = 0
    /\ mgba_handler = None /\ your_handler = None /\ mapped_handler = None
    /\ visits = [ k \in Keys \cup (0 .. MaxLines - 1) |-> 0 ]
    /\ printed = << >> /\ mismatches = 0 /\ total = 0

NextMain ==
    \/ ParseLine
    \/ ParseReturn
    \/ MainParsed
    \/ MainStart
    \/ ValidateStep
    \/ MainTotal

SpecMain == InitMain /\ [][NextMain]_vars


---------------------------------------------------------------------------
(* Properties of the emitter.                                              *)

\* generate_cpp_table has returned.
Emitted == pc \in {"emitted", "done"}

\* C1: once generate_cpp_table has returned, the macro expansion of the
\* emitted lines is the input table, entry for entry, and once the name
\* table is written the two agree index by index.
C1_RoundTrip ==
    /\ Emitted => ExpandLines(output) = handler_array
    /\ pc = "done" =>
          LET exp == ExpandLines(output)
          IN  /\ Len(exp) = Len(fn_names)
              /\ \A k \in 1 .. Len(fn_names) :
                    fn_names[k].index = k - 1 /\ fn_names[k].name = exp[k]

\* C4: the emitted runs tile the index range: the first starts at 0, each
\* next one starts right after the previous one ends, none is empty, and
\* after the return the last one ends at n - 1.
C4_RunsPartition ==
    /\ \A r \in 1 .. Len(output) :
          /\ output[r].last >= output[r].start
          /\ output[r].start = (IF r = 1 THEN 0 ELSE output[r - 1].last + 1)
    /\ (Emitted /\ Len(handler_array) > 0) =>
          /\ output # << >>
          /\ output[Len(output)].last = Len(handler_array) - 1
    /\ (Emitted /\ Len(handler_array) = 0) => output = << >>

\* A returned scan whose lines hold an alternation run between two
\* uniform runs.
C4_Witness ==
    /\ pc = "emitted"
    /\ Len(output) = 3
    /\ output[1].macro = "ARM_FN"
    /\ output[2].macro = "REPEAT_ALT"
    /\ output[3].macro = "ARM_FN"
    /\ output[3].last = Len(handler_array) - 1

RECURSIVE PopCount(_)
\* Number of 1 bits of a non-negative integer.
PopCount(x) == IF x = 0 THEN 0 ELSE (x % 2) + PopCount(x \div 2)

\* The fallback branch has emitted the whole run that starts at i.
RunEmitted == pc = "decomp" /\ count = 0

\* Length of that run, and the number of lines emitted for it.
SpanLength == start - i
SpanRuns == Cardinality({ r \in DOMAIN output : output[r].start >= i })

\* C5 as stated: a uniform run of length L taken by the fallback branch is
\* emitted as popcount(L) runs.
C5_PopCountRuns == RunEmitted => SpanRuns = PopCount(SpanLength)

\* C5 amended: the run is emitted as floor(L / 128) + popcount(L mod 128)
\* runs, which is popcount(L) below 256 and more than popcount(L) from
\* 256 on.
C5_GreedyBlocks ==
    RunEmitted =>
       /\ SpanLength = RunLength(handler_array, i)
       /\ SpanRuns = (SpanLength \div 128) + PopCount(SpanLength % 128)
       /\ SpanLength < 256 => SpanRuns = PopCount(SpanLength)
       /\ SpanLength >= 256 => SpanRuns > PopCount(SpanLength)

\* A run of 384 entries emitted as three blocks of 128.
C5_Witness ==
    /\ RunEmitted
    /\ SpanLength = 384
    /\ SpanRuns = 3
    /\ \A r \in DOMAIN output :
          output[r].start >= i => output[r].macro = "REPEAT_128"

---------------------------------------------------------------------------
(* Properties of classify and of the build loop.                           *)

\* C2: every classification made by the build loop returns one of the
\* category literals, never None.
C2_ClassifyTotal ==
    step > 0 => (mnemonic \in Categories /\ mnemonic # None)

\* A key no rule matches has been classified by the final return.
C2_Witness ==
    /\ step > 0
    /\ idx = 4 /\ mul_swp_bit = 1
    /\ \A r \in 1 .. 13 :
          RuleOrder(Bits(idx), mul_swp_bit)[r] = FallThrough
    /\ mnemonic = "Undefined/Reserved"

\* C3: no slot is ever assigned twice, and when the loop ends the table has
\* 512 entries, none of them the placeholder, each assigned exactly once.
C3_Density ==
    /\ Len(handler_array) = TableSize
    /\ \A k \in 0 .. TableSize - 1 : writes[k] <= 1
    /\ BuildDone =>
          \A k \in 0 .. TableSize - 1 :
             At(handler_array, k) # None /\ writes[k] = 1

\* The loop has ended and the last slot is filled.
C3_Witness ==
    /\ BuildDone
    /\ new_idx = TableSize - 1
    /\ At(handler_array, TableSize - 1) = "exec_arm_software_interrupt"

\* C6: the four literal classifications.
C6_SpotChecks ==
    step > 0 =>
       /\ (idx = 0 /\ mul_swp_bit = 1) => mnemonic = "MUL"
       /\ (idx = 0 /\ mul_swp_bit = 0) => mnemonic = "AND_REG"
       /\ (idx = 160 /\ mul_swp_bit = 0) => mnemonic = "B"
       /\ (idx = 240 /\ mul_swp_bit = 0) => mnemonic = "SWI"

\* classify(0x00, 1) has just returned MUL.
C6_Witness ==
    step = 2 /\ idx = 0 /\ mul_swp_bit = 1 /\ mnemonic = "MUL"

\* C10: with entries removed from the lookup the loop still fills all 512
\* slots: a key whose category is missing holds exec_arm_undefined, any
\* other key holds the handler the full lookup gives.
C10_FallbackOnMissing ==
    BuildDone =>
       /\ Len(handler_array) = TableSize
       /\ \A k \in 0 .. TableSize - 1 :
             LET c == classify(k \div 2, k % 2)
             IN  /\ writes[k] = 1
                 /\ At(handler_array, k) =
                       (IF c \in DOMAIN lookup
                        THEN type_to_handler[c]
                        ELSE "exec_arm_undefined")

\* The loop has ended with MUL and B missing from the lookup: key 0x001
\* (MUL) holds the fallback and key 0x000 (AND_REG) its own handler.
C10_Witness ==
    /\ BuildDone
    /\ "MUL" \notin DOMAIN lookup
    /\ "B" \notin DOMAIN lookup
    /\ "AND_REG" \in DOMAIN lookup
    /\ At(handler_array, 1) = "exec_arm_undefined"
    /\ At(handler_array, 320) = "exec_arm_undefined"
    /\ At(handler_array, 0) = "exec_arm_and_reg"

---------------------------------------------------------------------------
(* Properties of the validator.                                            *)

\* Lines 264-266 for one key: the canonical name expected and the local
\* name found, defaults applied.
Expected(ref, k) ==
    DictGet(mgba_to_yours, DictGet(ref, k, "ILL"), "(unmapped)")
Actual(loc, k) == DictGet(loc, k, "exec_arm_undefined")

\* Keys of the printed mismatch lines, in print order.
PrintedKeys == [ r \in 1 .. Len(printed) |-> printed[r].key ]

\* Keys at which the two tables disagree.
MismatchKeys ==
    { k \in AllKeys(mgba_table, your_table) :
        Expected(mgba_table, k) # Actual(your_table, k) }

\* C7: no key is visited twice; when the total is printed every key of the
\* union has been visited once and no other key, the printed lines are
\* exactly the disagreeing keys (in ascending order, each once, with the
\* three names of that key), and the total is the number of lines.
C7_ValidatorReport ==
    /\ \A k \in Keys : visits[k] <= 1
    /\ pc = "checked" =>
          /\ \A k \in Keys :
                visits[k] = (IF k \in AllKeys(mgba_table, your_table)
                             THEN 1 ELSE 0)
          /\ PrintedKeys = SortedSeq(MismatchKeys)
          /\ \A r \in 1 .. Len(printed) :
                /\ printed[r].mgba = DictGet(mgba_table, printed[r].key, "ILL")
                /\ printed[r].mapped = Expected(mgba_table, printed[r].key)
                /\ printed[r].yours = Actual(your_table, printed[r].key)
          /\ total = Len(printed)

\* A finished run over three keys that reported the first and the last
\* and passed the one between.
C7_Witness ==
    /\ pc = "checked"
    /\ AllKeys(mgba_table, your_table) = {0, 1, 2}
    /\ PrintedKeys = << 0, 2 >>
    /\ total = 2

\* The tables agree at every key of the union except possibly k.
AgreeExcept(k) ==
    \A j \in AllKeys(mgba_table, your_table) \ {k} :
       Expected(mgba_table, j) = Actual(your_table, j)

\* C8: tables that agree at every key give no line and total 0; tables
\* that agree everywhere except at one local entry, which differs from the
\* expected name, give one line, at that key, and total 1.
C8_AgreementAndSingleFault ==
    pc = "checked" =>
       /\ MismatchKeys = {} => (printed = << >> /\ total = 0)
       /\ \A k \in DOMAIN your_table :
             (AgreeExcept(k) /\ your_table[k] # Expected(mgba_table, k))
                => (PrintedKeys = << k >> /\ total = 1)

\* A finished run on three-key tables that agree except at the local
\* entry of key 1.
C8_Witness ==
    /\ pc = "checked"
    /\ DOMAIN your_table = {0, 1, 2}
    /\ DOMAIN mgba_table = {0, 1, 2}
    /\ AgreeExcept(1)
    /\ your_table[1] # Expected(mgba_table, 1)
    /\ PrintedKeys = << 1 >>
    /\ total = 1

\* The foreign names X_LSL .. X_ROR and XS_LSL .. XS_ROR of an operation.
ShiftVariants(x) ==
    { x \o s \o sh : s \in {"", "S"},
                     sh \in {"_LSL", "_LSR", "_ASR", "_ROR"} }

\* The category X_REG of each shift-variant name of the 16 operations.
RegisterFormOf ==
    [ nm \in UNION { ShiftVariants(data_proc_map[op]) : op \in 0 .. 15 } |->
        data_proc_map[CHOOSE op \in 0 .. 15 :
                         nm \in ShiftVariants(data_proc_map[op])] \o "_REG" ]

\* Every shift-variant name that is a key of the dict maps to the handler
\* of its X_REG category.
DictCollapsed ==
    \A nm \in DOMAIN RegisterFormOf \cap DOMAIN mgba_to_yours :
       mgba_to_yours[nm] = type_to_handler[RegisterFormOf[nm]]

\* C9: every shift-variant name of each of the 16 operations that is a
\* key of mgba_to_yours maps to the handler of the category X_REG, both in
\* the dict and in every canonicalisation the validator makes.
C9_CollapsedRegisterForms ==
    /\ DictCollapsed
    /\ (pc \in {"validate", "checked"} /\ mgba_handler \in DOMAIN RegisterFormOf
        /\ mgba_handler \in DOMAIN mgba_to_yours) =>
          mapped_handler = type_to_handler[RegisterFormOf[mgba_handler]]

\* The validator has canonicalised ANDS_ROR to the register-form AND
\* handler.
C9_Witness ==
    /\ pc = "validate"
    /\ mgba_handler = "ANDS_ROR"
    /\ mapped_handler = "exec_arm_and_reg"
    /\ mapped_handler = type_to_handler["AND_REG"]


---------------------------------------------------------------------------
(* Properties of the canonical mapping against the local handler space.    *)

\* The handler names the build loop can resolve a category to.
HandlerNames == { type_to_handler[c] : c \in DOMAIN type_to_handler }

\* C12: whenever the loop of main has translated a reference name that
\* has a canonical mapping, the canonical name is a handler name that
\* occurs as a value of type_to_handler.
C12_MappingInsideHandlerSpace ==
    (visits[key] > 0 /\ mgba_handler \in DOMAIN mgba_to_yours)
        => mapped_handler \in HandlerNames

---------------------------------------------------------------------------
(* Properties of parse_your_table.                                         *)

\* The table entries of a file: the group of each line that matches the
\* entry pattern, in file order.
Entries(lines) ==
    LET hit == SelectSeq(lines, LAMBDA ln : MatchEntry(ln) # None)
    IN  [ k \in 1 .. Len(hit) |-> MatchEntry(hit[k]) ]

\* C13: when parse_your_table returns, the k-th table entry of the file
\* (k counted from 0 over the matching lines only) is stored under key k,
\* and there are no other keys; lines that do not match add nothing.
C13_KeyIsEntryIndex ==
    pc = "parsed" =>
        LET e == Entries(inc_lines)
        IN  /\ DOMAIN your_table = 0 .. Len(e) - 1
            /\ \A k \in DOMAIN your_table : your_table[k] = e[k + 1]

---------------------------------------------------------------------------
(* Properties of the emitted runs.                                         *)

\* Two lines have the same shape: both uniform or both alternations.
SameShape(x, y) == Len(x.args) = Len(y.args)

\* Number of table entries a line covers.
Covered(x) == x.last - x.start + 1

BlockWindowLine(x) ==
    /\ Len(x.args) = 2
    /\ IsAABB(handler_array, x.start)
    /\ ~ IsABAB(handler_array, x.start)

\* C15: the line emitted for a window a, a, b, b is not the line of the
\* period-2 alternation (macro REPEAT_ALT, annotation ABAB), and it covers
\* exactly the 4 entries the scan advances by.
C15_BlockAlternationLine ==
    \A r \in DOMAIN output :
       BlockWindowLine(output[r]) =>
          /\ output[r].macro # "REPEAT_ALT"
          /\ output[r].tag # "ABAB"
          /\ Covered(output[r]) = 4

---------------------------------------------------------------------------
(* More properties of the build loop and of classify.                      *)

\* C16: every slot k the loop has written holds the handler that
\* type_to_handler gives for classify(k >> 1, k & 1), slots not yet
\* written hold None, the last iteration wrote slot (idx << 1) |
\* mul_swp_bit, and at the end of the loop all 512 slots are written.
C16_TableFollowsClassifier ==
    /\ \A k \in 0 .. TableSize - 1 :
          LET c == classify(k \div 2, k % 2)
          IN  IF writes[k] = 0
              THEN At(handler_array, k) = None
              ELSE /\ c \in DOMAIN type_to_handler
                   /\ At(handler_array, k) = type_to_handler[c]
    /\ step > 0 => new_idx = 2 * idx + mul_swp_bit /\ writes[new_idx] = 1
    /\ BuildDone => \A k \in 0 .. TableSize - 1 : writes[k] = 1

\* The loop has ended; key 0x000 (opcode 0, discriminator 0) holds the AND
\* handler, key 0x001 (opcode 0, discriminator 1) the multiply handler and
\* key 0x002 (opcode 1, discriminator 0) the AND handler again.
C16_Witness ==
    /\ BuildDone
    /\ idx = OpcodeCount - 1 /\ mul_swp_bit = 1
    /\ At(handler_array, 0) = "exec_arm_and_reg"
    /\ At(handler_array, 1) = "exec_arm_mul"
    /\ At(handler_array, 2) = "exec_arm_and_reg"

\* Opcode of the placeholder guard of line 177: bits 27..20 = 00100100.
BXOpcode == 36

\* C17: the iteration for the placeholder key (opcode8 = 0b00100100,
\* discriminator 0) classifies it as 'BX (possible)', and the built table
\* holds exec_arm_bx_possible in at least one slot.
C17_PlaceholderRecognised ==
    /\ (step > 0 /\ idx = BXOpcode /\ mul_swp_bit = 0)
          => mnemonic = "BX (possible)"
    /\ BuildDone =>
          \E k \in 0 .. TableSize - 1 :
             At(handler_array, k) = "exec_arm_bx_possible"

\* The last iteration classified a multiply key: opcode8 in 0x00..0x03
\* with discriminator 1.
MultiplyKey == step > 0 /\ idx \in 0 .. 3 /\ mul_swp_bit = 1

\* C18 as stated: for a multiply key classify returns MUL when bit 21 = 0
\* and MLA when bit 21 = 1, whatever bit 20 is.
C18_CollapseAtClassify ==
    MultiplyKey =>
       mnemonic = (IF Bit(idx, 1) = 0 THEN "MUL" ELSE "MLA")

\* C18 amended: for a multiply key classify returns MUL or MLA when bit
\* 20 = 0 and MULS or MLAS when bit 20 = 1; the two collapse in the
\* table, which holds exec_arm_mul when bit 21 = 0 and exec_arm_mla when
\* bit 21 = 1.
C18_CollapseAtHandler ==
    MultiplyKey =>
       /\ mnemonic = (IF Bit(idx, 1) = 0
                      THEN (IF Bit(idx, 0) = 1 THEN "MULS" ELSE "MUL")
                      ELSE (IF Bit(idx, 0) = 1 THEN "MLAS" ELSE "MLA"))
       /\ At(handler_array, new_idx) =
             (IF Bit(idx, 1) = 0 THEN "exec_arm_mul" ELSE "exec_arm_mla")

\* The iteration for opcode8 = 0x03, discriminator 1: the category is
\* MLAS, and the slots of 0x02 and 0x03 both hold exec_arm_mla.
C18_Witness ==
    /\ MultiplyKey
    /\ idx = 3
    /\ mnemonic = "MLAS"
    /\ At(handler_array, 5) = "exec_arm_mla"
    /\ At(handler_array, 7) = "exec_arm_mla"

\* Keys of the coprocessor region: bit 27 = 1, bit 26 = 1, bit 24 = 0 of
\* the opcode (the key is the opcode shifted left by one, plus the
\* discriminator).
CoprocKeys ==
    { k \in 0 .. TableSize - 1 :
         Bit(k, 8) = 1 /\ Bit(k, 7) = 1 /\ Bit(k, 5) = 0 }

\* The last iteration classified a key of the coprocessor region.
CoprocKey == step > 0 /\ new_idx \in CoprocKeys

\* C19: in the built table each of the four coprocessor operations is the
\* category of at least one key of the coprocessor region: the region
\* holds a load handler, a store handler, exec_arm_mrc and exec_arm_mcr.
C19_AllFourProduced ==
    BuildDone =>
       /\ \E k \in CoprocKeys :
             At(handler_array, k) \in {"exec_arm_ldc_imm", "exec_arm_ldc_reg"}
       /\ \E k \in CoprocKeys :
             At(handler_array, k) \in {"exec_arm_stc_imm", "exec_arm_stc_reg"}
       /\ \E k \in CoprocKeys : At(handler_array, k) = "exec_arm_mrc"
       /\ \E k \in CoprocKeys : At(handler_array, k) = "exec_arm_mcr"

---------------------------------------------------------------------------
(* Properties of the rules of classify, read off the build loop.           *)

\* The last iteration classified a single-data-transfer key: bit 27 = 0,
\* bit 26 = 1, discriminator 0.
SdtKey == step > 0 /\ Bit(idx, 7) = 0 /\ Bit(idx, 6) = 1 /\ mul_swp_bit = 0

\* Name of the load/store family the opcode selects by bits 20, 22, 25.
SdtFamily(op) ==
    (IF Bit(op, 0) = 1 THEN "LDR" ELSE "STR")
    \o (IF Bit(op, 2) = 1 THEN "B" ELSE "")
    \o (IF Bit(op, 5) = 0 THEN "_IMM" ELSE "_REG")

\* The handlers of the post-indexed transfers without writeback.
PostNoWbHandlers ==
    { type_to_handler[n \o o \o "_POST_NOWB"] :
         n \in {"STR", "STRB", "LDR", "LDRB"}, o \in {"_IMM", "_REG"} }

\* C21: a single-data-transfer key with bit 24 = 0 is classified as the
\* _POST_WB category of its family whatever bits 21 and 23 are, and no
\* slot of the table holds a post-indexed handler without writeback.
C21_PostIndexWriteback ==
    /\ (SdtKey /\ Bit(idx, 4) = 0)
          => mnemonic = SdtFamily(idx) \o "_POST_WB"
    /\ step > 0 => At(handler_array, new_idx) \notin PostNoWbHandlers
    /\ BuildDone =>
          \A k \in 0 .. TableSize - 1 :
             At(handler_array, k) \notin PostNoWbHandlers

\* The iteration for opcode8 = 0b01000000 (bit 24 = 0, bit 21 = 0), a
\* post-indexed store with the writeback bit clear: STR_IMM_POST_WB.
C21_Witness ==
    /\ SdtKey
    /\ idx = 64
    /\ mnemonic = "STR_IMM_POST_WB"
    /\ At(handler_array, 128) = "exec_arm_str_imm_post_wb"

\* The last iteration classified a key with bits 27 and 26 both 0 and
\* discriminator 0.
DpKey == step > 0 /\ Bit(idx, 7) = 0 /\ Bit(idx, 6) = 0 /\ mul_swp_bit = 0

\* The opcode satisfies the guards of the MRS/MSR rules apart from bit 25:
\* bit 24 = 1, bit 23 = 0, bit 20 = 0.
StatusRegisterOpcode(op) == Bit(op, 4) = 1 /\ Bit(op, 3) = 0 /\ Bit(op, 0) = 0

\* The sixteen operation names, indexed by bits 24..21.
OperationNames ==
    << "AND", "EOR", "SUB", "RSB", "ADD", "ADC", "SBC", "RSC",
       "TST", "TEQ", "CMP", "CMN", "ORR", "MOV", "BIC", "MVN" >>

\* C22: a key with bits 27, 26 = 0 and discriminator 0 that the MRS/MSR
\* rules do not take is classified as the operation name selected by bits
\* 24..21 followed by _IMM when bit 25 = 1 and _REG when bit 25 = 0; the
\* 'Other DP' default is never returned.
C22_DataProcessingNaming ==
    /\ (DpKey /\ ~ StatusRegisterOpcode(idx))
          => mnemonic = OperationNames[((idx \div 2) % 16) + 1]
                        \o (IF Bit(idx, 5) = 1 THEN "_IMM" ELSE "_REG")
    /\ mnemonic \notin {"Other DP_IMM", "Other DP_REG"}

\* The iteration for opcode8 = 0b00111110: bits 24..21 = 1111, bit 25 = 1.
C22_Witness ==
    /\ DpKey
    /\ idx = 62
    /\ ~ StatusRegisterOpcode(idx)
    /\ mnemonic = "MVN_IMM"

\* Keys at which the Data Processing rule, were it evaluated first, would
\* put another handler into the table than the one the loop has written.
ChangedByDataProcFirst ==
    { k \in 0 .. TableSize - 1 :
         LET d == RuleDataProc(Bits(k \div 2), k % 2)
         IN  /\ writes[k] = 1
             /\ d # FallThrough
             /\ DictGet(type_to_handler, d, FallbackHandler)
                   # At(handler_array, k) }

\* Keys of opcode8 0x10, 0x12, 0x14, 0x16, 0x30, 0x32, 0x34, 0x36 with
\* discriminator 0.
StatusRegisterKeys == { 32, 36, 40, 44, 96, 100, 104, 108 }

\* C23: with discriminator 0, opcode8 0x10 and 0x14 are classified as
\* MRS, 0x12 and 0x16 as MSR_REG and 0x30, 0x32, 0x34, 0x36 as MSR_IMM,
\* although the Data Processing rule matches each of them; in the built
\* table these eight entries, and no others, differ from what the Data
\* Processing rule evaluated first would give.
C23_FirstMatchWins ==
    /\ (step > 0 /\ mul_swp_bit = 0) =>
          /\ idx \in {16, 20} => mnemonic = "MRS"
          /\ idx \in {18, 22} => mnemonic = "MSR_REG"
          /\ idx \in {48, 50, 52, 54} => mnemonic = "MSR_IMM"
    /\ (step > 0 /\ new_idx \in StatusRegisterKeys)
          => RuleDataProc(Bits(idx), mul_swp_bit)
                \in { "TST_REG", "TEQ_REG", "CMP_REG", "CMN_REG",
                      "TST_IMM", "TEQ_IMM", "CMP_IMM", "CMN_IMM" }
    /\ BuildDone => ChangedByDataProcFirst = StatusRegisterKeys

\* The iteration for opcode8 = 0x36, discriminator 0: classified MSR_IMM
\* where the Data Processing rule alone gives CMN_IMM.
C23_Witness ==
    /\ step > 0 /\ idx = 54 /\ mul_swp_bit = 0
    /\ mnemonic = "MSR_IMM"
    /\ RuleDataProc(Bits(idx), mul_swp_bit) = "CMN_IMM"
    /\ At(handler_array, 108) = "exec_arm_msr_imm"

\* The categories whose name carries the _IMM marker, and those whose
\* name carries the _REG marker.
MarkedCategories(marker) ==
    { OperationNames[op] \o marker : op \in 1 .. 16 }
    \cup { "MSR" \o marker, "LDC" \o marker, "STC" \o marker }
    \cup { n \o marker \o v : n \in {"STR", "STRB", "LDR", "LDRB"},
                              v \in {"_POST_WB", "_PRE_WB", "_PRE_NOWB"} }

ImmCategories == MarkedCategories("_IMM")
RegCategories == MarkedCategories("_REG")

\* C24: a category with the _IMM marker is returned only for an opcode
\* with bit 25 = 1, and a category with the _REG marker only for an opcode
\* with bit 25 = 0.
C24_Bit25Polarity ==
    step > 0 =>
       /\ mnemonic \in ImmCategories => Bit(idx, 5) = 1
       /\ mnemonic \in RegCategories => Bit(idx, 5) = 0

\* C25: every iteration of the build loop for an opcode8 with bit 27 = 1
\* and discriminator 1 returns the category the preceding iteration
\* returned for the same opcode8 with discriminator 0, and leaves the
\* table entries 2*opcode8 and 2*opcode8+1 holding the same handler.
C25_UpperHalfIgnoresDiscriminator ==
    [][ (pc = "build" /\ step' = step + 1 /\ mul_swp_bit' = 1
         /\ Bit(idx', 7) = 1)
          => /\ idx' = idx /\ mul_swp_bit = 0
             /\ mnemonic' = mnemonic
             /\ At(handler_array', 2 * idx') = At(handler_array', 2 * idx' + 1)
      ]_vars

\* Opcode8 = 0b10100000 classified with discriminator 1: B, as with
\* discriminator 0, and both table entries hold exec_arm_b.
C25_Witness ==
    /\ step > 0 /\ idx = 160 /\ mul_swp_bit = 1
    /\ mnemonic = "B"
    /\ At(handler_array, 320) = "exec_arm_b"
    /\ At(handler_array, 321) = "exec_arm_b"

\* Opcodes of the multiply, long-multiply and swap prefixes:
\* 0x00..0x03, 0x08..0x0F and 0x10..0x17.
MultiplySwapOpcodes == (0 .. 3) \cup (8 .. 23)

\* The data-processing, MRS/MSR and single-data-transfer categories.
DiscriminatorZeroCategories ==
    ((ImmCategories \cup RegCategories)
        \ {"LDC_IMM", "LDC_REG", "STC_IMM", "STC_REG"})
    \cup {"MRS", "Other DP_IMM", "Other DP_REG", "Other SDT"}

\* C26: a key with discriminator 1 and bit 27 = 0 whose opcode8 lies
\* outside the multiply and swap prefixes is classified as
\* 'Undefined/Reserved' and its slot holds the undefined handler; no key
\* with discriminator 1 gets a data-processing, MRS/MSR or
\* single-data-transfer category.
C26_DiscriminatorOneUndefined ==
    (step > 0 /\ mul_swp_bit = 1) =>
       /\ (Bit(idx, 7) = 0 /\ idx \notin MultiplySwapOpcodes)
             => /\ mnemonic = "Undefined/Reserved"
                /\ At(handler_array, new_idx) = "exec_arm_undefined"
       /\ mnemonic \notin DiscriminatorZeroCategories

\* Opcode8 = 0b01000000 (a store with discriminator 0) classified with
\* discriminator 1.
C26_Witness ==
    /\ step > 0 /\ idx = 64 /\ mul_swp_bit = 1
    /\ mnemonic = "Undefined/Reserved"
    /\ At(handler_array, 128) = "exec_arm_str_imm_post_wb"
    /\ At(handler_array, 129) = "exec_arm_undefined"

\* C27: every category the build loop gets from classify is a key of
\* type_to_handler, so the slot is filled from the dict and not from the
\* fallback argument of get; the defaults 'Other DP' and 'Other SDT' are
\* never returned.
C27_LookupComplete ==
    step > 0 =>
       /\ lookup = type_to_handler
       /\ mnemonic \in DOMAIN lookup
       /\ At(handler_array, new_idx) = lookup[mnemonic]
       /\ mnemonic \notin {"Other DP_IMM", "Other DP_REG", "Other SDT"}

\* Opcode8 = 0x04 with discriminator 1 falls to the final return of
\* classify; its category is a key of the dict.
C27_Witness ==
    /\ step > 0 /\ idx = 4 /\ mul_swp_bit = 1
    /\ mnemonic = "Undefined/Reserved"
    /\ "Undefined/Reserved" \in DOMAIN lookup
    /\ At(handler_array, 9) = lookup["Undefined/Reserved"]

\* The block sizes of the uniform macros of the boilerplate.
UniformCounts == { 1, 2, 4, 8, 16, 32, 64, 128 }

\* C28: every emitted line expands under the boilerplate macros to as many
\* entries as the run it was emitted for covers; uniform runs cover 1, 2,
\* 4, ..., 128 entries and alternation runs 4, no line is an explicit
\* listing, and once generate_cpp_table has returned the expansion of all
\* lines has as many entries as the table.
C28_EmittedSize ==
    /\ \A r \in DOMAIN output :
          /\ output[r].macro # "LIST"
          /\ Len(ExpandMacro(output[r].macro, output[r].args))
                = Covered(output[r])
          /\ Len(output[r].args) = 1 => Covered(output[r]) \in UniformCounts
          /\ Len(output[r].args) = 2 => Covered(output[r]) = 4
    /\ Emitted => Len(ExpandLines(output)) = Len(handler_array)

\* A table of 512 equal entries emitted as four REPEAT_128 lines that
\* expand to 512 entries.
C28_Witness ==
    /\ Emitted
    /\ Len(handler_array) = 512
    /\ Len(output) = 4
    /\ \A r \in DOMAIN output : output[r].macro = "REPEAT_128"
    /\ Len(ExpandLines(output)) = 512

---------------------------------------------------------------------------
(* Termination of the emitter.                                             *)

\* The scan index and the decomposition stay inside the table, the window
\* tests are made only where four entries are left, and a pass of the
\* decomposition loop always has a block size that fits.
C29_InBounds ==
    /\ 0 <= i /\ i <= Len(handler_array)
    /\ \A r \in DOMAIN output :
          0 <= output[r].start /\ output[r].last < Len(handler_array)
    /\ (IsABAB(handler_array, i) \/ IsAABB(handler_array, i))
          => i + 3 < Len(handler_array)
    /\ pc = "decomp" =>
          /\ i < Len(handler_array)
          /\ count >= 0
          /\ start + count <= Len(handler_array)
          /\ count > 0 => \E k \in DOMAIN macros : count >= macros[k]

\* Every step of the scan moves forward: a window line or a finished span
\* increases the index, a pass of the decomposition loop decreases the
\* remaining count, and the scan returns with the index at the end.
C29_Progress ==
    /\ i' >= i
    /\ (pc = "scan" /\ pc' = "scan") => i' > i
    /\ (pc = "decomp" /\ pc' = "scan") => (i' > i /\ i' = start)
    /\ (pc = "decomp" /\ pc' = "decomp") => (count' < count /\ count' >= 0)
    /\ (pc = "scan" /\ pc' = "decomp") => count' >= 1
    /\ (pc = "scan" /\ pc' = "emitted") => i = Len(handler_array)

\* C29: for every table the scan of generate_cpp_table stays in bounds,
\* moves forward on every step and returns, with the index equal to the
\* length of the table.
C29_ScanTerminates ==
    /\ []C29_InBounds
    /\ [][C29_Progress]_vars
    /\ <>(Emitted /\ i = Len(handler_array))

\* A table a, b, a, b, a scanned to its end: a window line, then a run of
\* one entry, the index at 5.
C29_Witness ==
    /\ pc = "emitted"
    /\ Len(handler_array) = 5
    /\ i = 5
    /\ Len(output) = 2
    /\ output[1].macro = "REPEAT_ALT"
    /\ output[2].macro = "ARM_FN"

---------------------------------------------------------------------------
(* Properties of main on a parsed file.                                    *)

\* Keys whose reference name is present and has no canonical mapping.
UnmappedKeys ==
    { k \in DOMAIN mgba_table : mgba_table[k] \notin DOMAIN mgba_to_yours }

\* C30: no parsed local name is the text of the unmapped sentinel, and
\* when the total is printed every key whose reference name has no
\* canonical mapping has a mismatch line, with the sentinel as its mapped
\* name, whether the local table has an entry at that key or not.
C30_UnmappedSurfaces ==
    /\ \A k \in DOMAIN your_table : your_table[k] # "(unmapped)"
    /\ pc = "checked" =>
          \A k \in UnmappedKeys :
             \E r \in DOMAIN printed :
                /\ printed[r].key = k
                /\ printed[r].mapped = "(unmapped)"
                /\ printed[r].yours = DictGet(your_table, k, "exec_arm_undefined")

\* A finished run in which the reference name at key 1 has no mapping and
\* the local file has the entry line ARM_FN((unmapped)) on line 1: the
\* parsed name is "(unmapped" and the key is reported.
C30_Witness ==
    /\ pc = "checked"
    /\ UnmappedKeys = {1}
    /\ 1 \in DOMAIN your_table
    /\ your_table[1] = "(unmapped"
    /\ total >= 1
    /\ \E r \in DOMAIN printed : printed[r].key = 1

============================================================================
